---- MODULE Spec2Model ----
(***************************************************************************)
(* Model of equivcheck.py: the character range decoder, the re2c graph     *)
(* parser, the automaton builder and the equivalence comparison of main.   *)
(*                                                                         *)
(* Strings are sequences of one-character strings.  The automata library   *)
(* (automata.fa.dfa.DFA) is modelled by the contract of the calls the      *)
(* program makes: the constructor validates its arguments, difference and  *)
(* union are product constructions over one common alphabet, isempty is    *)
(* reachability of an accepting state, == is language equality and         *)
(* successor("", strict=True) is the first accepted string after "" in     *)
(* lexicographical order.                                                  *)
(***************************************************************************)
EXTENDS Integers, Sequences, FiniteSets, TLC

VARIABLES
    pc,          \* position of the operation under way
    groups,      \* the bracket groups range_str was written from
    range_str,   \* argument of parse_char_ranges
    chars,       \* result of parse_char_ranges
    text,        \* argument of parse_re2c_graphs, as its sequence of lines
    lines,       \* the deque of lines still to be read
    dfas,        \* parse_re2c_graphs: the list of ParsedDFA built so far
    transitions, \* parse_re2c_graph: edges of the block being read
    finalnodes,  \* parse_re2c_graph: accepting nodes of the block being read
    pdfa,        \* argument of parsed_dfa_to_automaton
    dfa,         \* result of parsed_dfa_to_automaton
    parsed,      \* main: the parsed blocks
    a,           \* main: automaton of parsed[0]
    z,           \* main: automaton of parsed[1]
    zad,         \* main: z.difference(a)
    adz,         \* main: a.difference(z)
    reports,     \* main: the witness reports printed so far
    verdict      \* main: the printed "DFAs equivalent?" value, if any

rangeVars == <<groups, range_str, chars>>
parseVars == <<text, lines, dfas, transitions, finalnodes>>
buildVars == <<pdfa, dfa>>
mainVars == <<parsed, a, z, zad, adz, reports, verdict>>
vars == <<pc, rangeVars, parseVars, buildVars, mainVars>>

\* Bounds of the model.
MaxGroups == 2
MaxLines == 4
MaxTrans == 2
MaxEdges == 2
MaxWord == 3

Min(S) == CHOOSE x \in S : \A y \in S : x <= y

Max(S) == CHOOSE x \in S : \A y \in S : x >= y

(***************************************************************************)
(* Python string primitives used by the decoder.                           *)
(***************************************************************************)

\* ord() of the characters the model writes.
ord(c) ==
    CASE c = "-" -> 45
      [] c = "0" -> 48
      [] c = "1" -> 49
      [] c = "2" -> 50
      [] c = "3" -> 51
      [] c = "6" -> 54
      [] c = "D" -> 68
      [] c = "[" -> 91
      [] c = "]" -> 93
      [] c = "a" -> 97
      [] c = "c" -> 99
      [] c = "x" -> 120

\* chr() of a code, the inverse of ord.
chr(n) == CHOOSE c \in {"-", "0", "1", "2", "3", "6", "D", "[", "]", "a", "c", "x"} : ord(c) = n

HexDigits == {"0", "1", "2", "3", "6", "D"}

HexVal(c) ==
    CASE c = "0" -> 0
      [] c = "1" -> 1
      [] c = "2" -> 2
      [] c = "3" -> 3
      [] c = "6" -> 6
      [] c = "D" -> 13

HexChar(n) == CHOOSE c \in HexDigits : HexVal(c) = n

\* s.strip("[]"): drop every leading and trailing '[' and ']'.
RECURSIVE lstrip(_)
lstrip(s) ==
    IF s # <<>> /\ Head(s) \in {"[", "]"} THEN lstrip(Tail(s)) ELSE s

RECURSIVE rstrip(_)
rstrip(s) ==
    IF s # <<>> /\ s[Len(s)] \in {"[", "]"}
    THEN rstrip(SubSeq(s, 1, Len(s) - 1))
    ELSE s

strip(s) == rstrip(lstrip(s))

\* Index of the first occurrence of sep in s, 0 if there is none.
find(s, sep) ==
    LET hits == {i \in 1..(Len(s) - Len(sep) + 1) :
                    SubSeq(s, i, i + Len(sep) - 1) = sep}
    IN  IF hits = {} THEN 0 ELSE Min(hits)

\* s.split(sep)
RECURSIVE split(_, _)
split(s, sep) ==
    LET i == find(s, sep)
    IN  IF i = 0
        THEN <<s>>
        ELSE <<SubSeq(s, 1, i - 1)>> \o split(SubSeq(s, i + Len(sep), Len(s)), sep)

\* int(s, 16) for s starting with "0x": a ValueError without hex digits.
RECURSIVE HexNum(_, _)
HexNum(s, acc) ==
    IF s = <<>> THEN acc ELSE HexNum(Tail(s), 16 * acc + HexVal(Head(s)))

\* The local function p of parse_char_ranges; ok is FALSE where Python raises.
p(s) ==
    IF Len(s) >= 2 /\ SubSeq(s, 1, 2) = <<"0", "x">>
    THEN LET d == SubSeq(s, 3, Len(s))
         IN  IF d # <<>> /\ \A i \in 1..Len(d) : d[i] \in HexDigits
             THEN [ok |-> TRUE, val |-> HexNum(d, 0)]
             ELSE [ok |-> FALSE, val |-> 0]
    ELSE IF Len(s) = 1
         THEN [ok |-> TRUE, val |-> ord(s[1])]
         ELSE [ok |-> FALSE, val |-> 0]

\* One iteration of the loop over the parts: the codes of one part.
part_chars(part) ==
    IF \E i \in 1..Len(part) : part[i] = "-"
    THEN LET ab == split(part, <<"-">>)
         IN  IF Len(ab) # 2
             THEN [raised |-> TRUE, chars |-> {}]
             ELSE LET pa == p(ab[1])
                      pb == p(ab[2])
                  IN  IF ~pa.ok \/ ~pb.ok
                      THEN [raised |-> TRUE, chars |-> {}]
                      ELSE [raised |-> FALSE,
                            chars |-> Min({pa.val, pb.val})..Max({pa.val, pb.val})]
    ELSE LET pp == p(part)
         IN  IF pp.ok
             THEN [raised |-> FALSE, chars |-> {pp.val}]
             ELSE [raised |-> TRUE, chars |-> {}]

RECURSIVE update_parts(_, _)
update_parts(parts, acc) ==
    IF parts = <<>>
    THEN [raised |-> FALSE, chars |-> acc]
    ELSE LET r == part_chars(Head(parts))
         IN  IF r.raised
             THEN [raised |-> TRUE, chars |-> {}]
             ELSE update_parts(Tail(parts), acc \cup r.chars)

parse_char_ranges(s) == update_parts(split(strip(s), <<"]", "[">>), {})

(***************************************************************************)
(* The graph parser.  A line is what the parser's tests see of it: its     *)
(* kind (which of the tests of parse_re2c_graph the stripped line passes), *)
(* the groups of the edge or node pattern, and the text of the label.      *)
(***************************************************************************)

Line(kind, src, dst, label, name) ==
    [kind |-> kind, src |-> src, dst |-> dst, label |-> label, name |-> name]

\* "}"
CloseLine == Line("close", 0, 0, <<>>, "")

\* "digraph re2c {"
DigraphLine == Line("digraph", 0, 0, <<>>, "")

\* ""
BlankLine == Line("blank", 0, 0, <<>>, "")

\* 1 -> 2 [label="yyacept=0 [a-c]"]
LabelledEdgeLine ==
    Line("edge", 1, 2,
         <<"y", "y", "a", "c", "e", "p", "t", "=", "0", " ", "[", "a", "-", "c", "]">>,
         "")

\* 1 -> 2 [label="[ ]"]
SpaceEdgeLine == Line("edge", 1, 2, <<"[", " ", "]">>, "")

\* 2 -> 3
PlainEdgeLine == Line("edge", 2, 3, <<>>, "")

\* 3 [label="x"]
NodeLine == Line("node", 3, 0, <<>>, "x")

\* "rankdir=LR"
OtherLine == Line("other", 0, 0, <<>>, "")

LinePool ==
    {CloseLine, DigraphLine, BlankLine, LabelledEdgeLine, SpaceEdgeLine,
     PlainEdgeLine, NodeLine, OtherLine}

Texts == UNION {[1..n -> LinePool] : n \in 0..MaxLines}

\* text.strip(): blank lines at either end of the text go.
RECURSIVE drop_leading_blank(_)
drop_leading_blank(t) ==
    IF t # <<>> /\ Head(t).kind = "blank" THEN drop_leading_blank(Tail(t)) ELSE t

RECURSIVE drop_trailing_blank(_)
drop_trailing_blank(t) ==
    IF t # <<>> /\ t[Len(t)].kind = "blank"
    THEN drop_trailing_blank(SubSeq(t, 1, Len(t) - 1))
    ELSE t

\* deque(text.strip().split("\n")): the split of an empty text is one empty line.
text_lines(t) ==
    LET s == drop_trailing_blank(drop_leading_blank(t))
    IN  IF s = <<>> THEN <<BlankLine>> ELSE s

startswith(s, prefix) ==
    Len(s) >= Len(prefix) /\ SubSeq(s, 1, Len(prefix)) = prefix

\* label.split(): the maximal runs of characters other than white space.
RECURSIVE split_ws(_, _)
split_ws(s, tok) ==
    IF s = <<>>
    THEN (IF tok = <<>> THEN <<>> ELSE <<tok>>)
    ELSE IF Head(s) = " "
         THEN (IF tok = <<>> THEN <<>> ELSE <<tok>>) \o split_ws(Tail(s), <<>>)
         ELSE split_ws(Tail(s), Append(tok, Head(s)))

\* The loop over label.split(): the codes of an edge label's tokens.
RECURSIVE label_chars(_, _)
label_chars(tokens, acc) ==
    IF tokens = <<>>
    THEN [raised |-> FALSE, chars |-> acc]
    ELSE LET tok == Head(tokens)
         IN  IF startswith(tok, <<"y", "y", "a", "c", "e", "p", "t", "=">>)
             THEN label_chars(Tail(tokens), acc)
             ELSE IF \E i \in 1..Len(tok) : tok[i] = "["
                  THEN LET r == parse_char_ranges(tok)
                       IN  IF r.raised
                           THEN [raised |-> TRUE, chars |-> {}]
                           ELSE label_chars(Tail(tokens), acc \cup r.chars)
                  ELSE label_chars(Tail(tokens), acc)

Transition(src, dst, cs) == [src |-> src, dst |-> dst, chars |-> cs]

ParsedDFA(trs, fins) == [transitions |-> trs, finalnodes |-> fins]

\* The Transition an edge line records, unless decoding its label raises.
edge_transition(line) ==
    LET r == label_chars(split_ws(line.label, <<>>), {})
    IN  [raised |-> r.raised, transition |-> Transition(line.src, line.dst, r.chars)]

(***************************************************************************)
(* The automaton builder.  mk_state (str) and chr are injective and their  *)
(* results are only compared for equality or, for symbols, by code point:  *)
(* a state is named by its node identifier and a symbol by its code.       *)
(***************************************************************************)

Automaton(states, input_symbols, trans, initial_state, final_states) ==
    [status |-> "ok", states |-> states, input_symbols |-> input_symbols,
     transitions |-> trans, initial_state |-> initial_state,
     final_states |-> final_states]

\* An exception that leaves the caller without an automaton.
Raised(exception) ==
    [status |-> exception, states |-> {}, input_symbols |-> {},
     transitions |-> <<>>, initial_state |-> 0, final_states |-> {}]

NoAutomaton == Raised("none")

\* DFA(...) of the automata library: the constructor validates that every
\* state has a transition on every input symbol (allow_partial is False) and
\* that the final states are states.
DFA_allow_partial(states, input_symbols, trans, initial_state, final_states) ==
    IF ~(final_states \subseteq states)
    THEN Raised("InvalidStateError")
    ELSE Automaton(states, input_symbols, trans, initial_state, final_states)

DFA_any_final(states, input_symbols, trans, initial_state, final_states) ==
    IF \E s \in states : DOMAIN trans[s] # input_symbols
    THEN Raised("MissingSymbolError")
    ELSE Automaton(states, input_symbols, trans, initial_state, final_states)

DFA(states, input_symbols, trans, initial_state, final_states) ==
    IF \E s \in states : DOMAIN trans[s] # input_symbols
    THEN Raised("MissingSymbolError")
    ELSE IF ~(final_states \subseteq states)
         THEN Raised("InvalidStateError")
         ELSE Automaton(states, input_symbols, trans, initial_state, final_states)

\* transitions[src][sym] = dst for every sym of syms.
assign(trans, src, syms, dst) ==
    LET old == trans[src]
    IN  [trans EXCEPT ![src] =
            [sym \in (DOMAIN old) \cup syms |->
                IF sym \in syms THEN dst ELSE old[sym]]]

\* The second loop over pdfa.transitions: one pass, in list order.
RECURSIVE set_transitions_labelled_first(_, _, _)
set_transitions_labelled_first(trs, trans, input_symbols) ==
    LET labelled == SelectSeq(trs, LAMBDA t : t.chars # {})
        unconditional == SelectSeq(trs, LAMBDA t : t.chars = {})
        ordered == labelled \o unconditional
    IN  IF ordered = <<>>
        THEN trans
        ELSE LET t == Head(ordered)
             IN  set_transitions_labelled_first(
                     Tail(ordered),
                     assign(trans, t.src,
                            IF t.chars = {} THEN input_symbols ELSE t.chars, t.dst),
                     input_symbols)

RECURSIVE set_transitions(_, _, _)
set_transitions(trs, trans, input_symbols) ==
    IF trs = <<>>
    THEN trans
    ELSE LET t == Head(trs)
         IN  set_transitions(
                 Tail(trs),
                 assign(trans, t.src,
                        IF t.chars = {} THEN input_symbols ELSE t.chars, t.dst),
                 input_symbols)

\* The choice of the start state among list(states - nonstarters).
initial_state_any(starters) ==
    IF starters = {}
    THEN [raised |-> "AssertionError", state |-> 0]
    ELSE [raised |-> "", state |-> Min(starters)]

initial_state_of(starters) ==
    IF Cardinality(starters) > 1
    THEN [raised |-> "Exception", state |-> 0]
    ELSE IF Cardinality(starters) # 1
         THEN [raised |-> "AssertionError", state |-> 0]
         ELSE [raised |-> "", state |-> CHOOSE s \in starters : TRUE]

Range(f) == {f[i] : i \in DOMAIN f}

parsed_dfa_to_automaton(pd) ==
    LET trs == pd.transitions
        states == {t.src : t \in Range(trs)} \cup {t.dst : t \in Range(trs)}
        input_symbols == UNION {t.chars : t \in Range(trs)}
        final_states == {n[1] : n \in Range(pd.finalnodes)}
        nonstarters == {t.dst : t \in Range(trs)}
        loops == [s \in states |->
                     IF s \in final_states
                     THEN [sym \in input_symbols |-> s]
                     ELSE [sym \in {} |-> s]]
        trans == set_transitions(trs, loops, input_symbols)
        start == initial_state_of(states \ nonstarters)
    IN  IF input_symbols # {} /\ ~(final_states \subseteq states)
        THEN Raised("KeyError")
        ELSE IF start.raised # ""
             THEN Raised(start.raised)
             ELSE DFA(states, input_symbols, trans, start.state, final_states)

(***************************************************************************)
(* The automaton algebra main calls on the built automata.                 *)
(***************************************************************************)

\* The states reachable from the states of frontier.
RECURSIVE reach(_, _, _)
reach(d, seen, frontier) ==
    IF frontier = {}
    THEN seen
    ELSE LET next == {d.transitions[s][sym] :
                         s \in frontier, sym \in d.input_symbols} \ seen
         IN  reach(d, seen \cup next, next)

reachable(d) == reach(d, {d.initial_state}, {d.initial_state})

\* The states from which a final state is reachable.
RECURSIVE coreach(_, _)
coreach(d, seen) ==
    LET more == {s \in d.states \ seen :
                    \E sym \in d.input_symbols : d.transitions[s][sym] \in seen}
    IN  IF more = {} THEN seen ELSE coreach(d, seen \cup more)

coaccessible(d) == coreach(d, d.final_states)

\* The product of x and y over its reachable pairs, accepting as op says; the
\* library raises SymbolMismatchError unless the two automata have the same
\* input symbols.
cross_product(x, y, op) ==
    IF x.input_symbols # y.input_symbols
    THEN Raised("SymbolMismatchError")
    ELSE LET pairs == x.states \X y.states
             syms == x.input_symbols
             trans == [pq \in pairs |->
                          [sym \in syms |->
                              <<x.transitions[pq[1]][sym], y.transitions[pq[2]][sym]>>]]
             start == <<x.initial_state, y.initial_state>>
             full == Automaton(pairs, syms, trans, start, {})
             live == reachable(full)
         IN  Automaton(live, syms, [pq \in live |-> trans[pq]], start,
                       {pq \in live :
                           LET q == pq[1] \in x.final_states
                               r == pq[2] \in y.final_states
                           IN  CASE op = "difference" -> q /\ ~r
                                 [] op = "union" -> q \/ r
                                 [] op = "symmetric_difference" -> q # r})

\* x.difference(y)
difference(x, y) ==
    cross_product(x, y, "difference")

\* x.union(y)
union(x, y) ==
    cross_product(x, y, "union")

\* d.isempty()
isempty(d) == reachable(d) \cap d.final_states = {}

\* x == y: the two automata accept the same language.
dfa_eq(x, y) ==
    /\ x.input_symbols = y.input_symbols
    /\ isempty(cross_product(x, y, "symmetric_difference"))

\* d.successor("", strict=True): the search takes, from each state, the
\* least symbol that leads to a state from which a final state is reachable,
\* and stops at the first final state it enters.  It returns None when no
\* symbol leads on from the initial state and does not return when it comes
\* back to a state it has left.
RECURSIVE search(_, _, _, _)
search(d, state, word, left) ==
    LET co == coaccessible(d)
        viable == {sym \in d.input_symbols : d.transitions[state][sym] \in co}
    IN  IF viable = {}
        THEN [found |-> FALSE, hang |-> FALSE, word |-> <<>>]
        ELSE LET sym == Min(viable)
                 next == d.transitions[state][sym]
             IN  IF next \in d.final_states
                 THEN [found |-> TRUE, hang |-> FALSE, word |-> Append(word, sym)]
                 ELSE IF next \in left \cup {state}
                      THEN [found |-> FALSE, hang |-> TRUE, word |-> <<>>]
                      ELSE search(d, next, Append(word, sym), left \cup {state})

successor(d) == search(d, d.initial_state, <<>>, {})

(***************************************************************************)
(* The comparison of main, for exactly two parsed blocks.                  *)
(***************************************************************************)

\* click.echo of the header naming an automaton and of successor("").
report(which, d) ==
    LET w == successor(d)
    IN  [which |-> which, found |-> w.found, word |-> w.word]

\* equiv1 = a.union(z) == a and z.union(a) == z
equiv1(x, y) == dfa_eq(union(x, y), x) /\ dfa_eq(union(y, x), y)

\* equiv2 = adz.isempty() and zad.isempty()
equiv2(dxy, dyx) == isempty(dxy) /\ isempty(dyx)

\* assert equiv1 == equiv2, then print("DFAs equivalent?", equiv1)
equivalent_one_sided(x, y, dxy, dyx) ==
    [raised |-> FALSE, equiv |-> dfa_eq(union(x, y), x)]

equivalent(x, y, dxy, dyx) ==
    IF equiv1(x, y) # equiv2(dxy, dyx)
    THEN [raised |-> TRUE, equiv |-> FALSE]
    ELSE [raised |-> FALSE, equiv |-> equiv1(x, y)]

(***************************************************************************)
(* Inputs.                                                                 *)
(***************************************************************************)

SeqsUpTo(S, n) == UNION {[1..k -> S] : k \in 0..n}

\* Range specs: one or more groups, a group one endpoint or two, an endpoint
\* a character written as itself or as 0xNN.
EndCodes == {45, 97, 99}

Endpoints == [form : {"lit", "hex"}, code : EndCodes]

Groups == [1..1 -> Endpoints] \cup [1..2 -> Endpoints]

RangeSpecs == SeqsUpTo(Groups, MaxGroups) \ {<<>>}

render_endpoint(e) ==
    IF e.form = "lit"
    THEN <<chr(e.code)>>
    ELSE <<"0", "x", HexChar(e.code \div 16), HexChar(e.code % 16)>>

render_group(g) ==
    <<"[">> \o render_endpoint(g[1])
            \o (IF Len(g) = 2 THEN <<"-">> \o render_endpoint(g[2]) ELSE <<>>)
            \o <<"]">>

RECURSIVE render(_)
render(gs) == IF gs = <<>> THEN <<>> ELSE render_group(Head(gs)) \o render(Tail(gs))

\* Builder inputs: edges over three nodes, unconditional or labelled with one
\* of two codes, in any order; accepting nodes in ascending order.
Nodes == {0, 1, 2}

CharSets == {{}, {97}, {98}}

BuildEdges == {Transition(s, d, cs) : s \in Nodes, d \in Nodes, cs \in CharSets}

FinalLists ==
    {fins \in UNION {[1..k -> (Nodes \X {"x"})] : k \in {0, 1, 2}} :
        \A i \in DOMAIN fins : \A j \in DOMAIN fins : i < j => fins[i][1] < fins[j][1]}

PDFAs ==
    {ParsedDFA(trs, fins) : trs \in SeqsUpTo(BuildEdges, MaxTrans), fins \in FinalLists}

\* Blocks compared by main: edges into node 1, node 0 the entry node.
EdgePool ==
    << Transition(0, 1, {97}), Transition(0, 1, {98}), Transition(0, 1, {97, 98}),
       Transition(0, 1, {}),
       Transition(1, 1, {97}), Transition(1, 1, {98}), Transition(1, 1, {97, 98}) >>

RECURSIVE pick(_, _, _)
pick(pool, I, i) ==
    IF i > Len(pool)
    THEN <<>>
    ELSE (IF i \in I THEN <<pool[i]>> ELSE <<>>) \o pick(pool, I, i + 1)

MainFinals ==
    {<<>>, << <<0, "x">> >>, << <<1, "x">> >>, << <<0, "x">>, <<1, "x">> >>}

Blocks ==
    {ParsedDFA(pick(EdgePool, I, 1), fins) :
        I \in {J \in SUBSET (DOMAIN EdgePool) : Cardinality(J) <= MaxEdges},
        fins \in MainFinals}

NoChars == [raised |-> FALSE, chars |-> {}]

rangeIdle == groups = <<>> /\ range_str = <<>> /\ chars = NoChars

parseIdle ==
    text = <<>> /\ lines = <<>> /\ dfas = <<>> /\ transitions = <<>> /\ finalnodes = <<>>

buildIdle == pdfa = ParsedDFA(<<>>, <<>>) /\ dfa = NoAutomaton

mainIdle ==
    /\ parsed = <<>>
    /\ a = NoAutomaton /\ z = NoAutomaton /\ zad = NoAutomaton /\ adz = NoAutomaton
    /\ reports = <<>> /\ verdict = <<>>

(***************************************************************************)
(* parse_char_ranges applied to a range spec.                              *)
(***************************************************************************)

InitRanges ==
    /\ pc = "decode"
    /\ groups \in RangeSpecs
    /\ range_str = render(groups)
    /\ chars = NoChars
    /\ parseIdle /\ buildIdle /\ mainIdle

Decode ==
    /\ pc = "decode"
    /\ chars' = parse_char_ranges(range_str)
    /\ pc' = "decoded"
    /\ UNCHANGED <<groups, range_str, parseVars, buildVars, mainVars>>

NextRanges == Decode

SpecRanges == InitRanges /\ [][NextRanges]_vars

(***************************************************************************)
(* parse_re2c_graphs: the loop of parse_re2c_graph calls over the deque.   *)
(***************************************************************************)

InitParse ==
    /\ pc = "parse_start"
    /\ text \in Texts
    /\ lines = <<>> /\ dfas = <<>> /\ transitions = <<>> /\ finalnodes = <<>>
    /\ rangeIdle /\ buildIdle /\ mainIdle

\* lines = deque(...), and the first call of parse_re2c_graph.
ParseStart ==
    /\ pc = "parse_start"
    /\ lines' = text_lines(text)
    /\ dfas' = <<>> /\ transitions' = <<>> /\ finalnodes' = <<>>
    /\ pc' = "parse_graph"
    /\ UNCHANGED <<text, rangeVars, buildVars, mainVars>>

\* line == "}": the block is returned and appended, the next call starts.
ParseClose ==
    /\ pc = "parse_graph" /\ lines # <<>> /\ Head(lines).kind = "close"
    /\ lines' = Tail(lines)
    /\ dfas' = Append(dfas, ParsedDFA(transitions, finalnodes))
    /\ transitions' = <<>> /\ finalnodes' = <<>>
    /\ UNCHANGED <<pc, text, rangeVars, buildVars, mainVars>>

\* digraph declarations, comments and empty lines, and lines no pattern matches.
ParseSkip ==
    /\ pc = "parse_graph" /\ lines # <<>>
    /\ Head(lines).kind \in {"digraph", "blank", "other"}
    /\ lines' = Tail(lines)
    /\ UNCHANGED <<pc, text, dfas, transitions, finalnodes, rangeVars, buildVars, mainVars>>

ParseEdge ==
    /\ pc = "parse_graph" /\ lines # <<>> /\ Head(lines).kind = "edge"
    /\ lines' = Tail(lines)
    /\ LET r == edge_transition(Head(lines))
       IN  IF r.raised
           THEN pc' = "raised" /\ UNCHANGED transitions
           ELSE pc' = pc /\ transitions' = Append(transitions, r.transition)
    /\ UNCHANGED <<text, dfas, finalnodes, rangeVars, buildVars, mainVars>>

ParseNode ==
    /\ pc = "parse_graph" /\ lines # <<>> /\ Head(lines).kind = "node"
    /\ lines' = Tail(lines)
    /\ finalnodes' = Append(finalnodes, <<Head(lines).src, Head(lines).name>>)
    /\ UNCHANGED <<pc, text, dfas, transitions, rangeVars, buildVars, mainVars>>

\* The deque is empty: parse_re2c_graph returns None and the loop ends.
ParseEnd ==
    /\ pc = "parse_graph" /\ lines = <<>>
    /\ pc' = "parse_done"
    /\ UNCHANGED <<text, lines, dfas, transitions, finalnodes, rangeVars, buildVars, mainVars>>

NextParse ==
    \/ ParseStart
    \/ ParseClose
    \/ ParseSkip
    \/ ParseEdge
    \/ ParseNode
    \/ ParseEnd

SpecParse == InitParse /\ [][NextParse]_vars

(***************************************************************************)
(* parsed_dfa_to_automaton applied to a ParsedDFA.                         *)
(***************************************************************************)

InitBuild ==
    /\ pc = "build"
    /\ pdfa \in PDFAs
    /\ dfa = NoAutomaton
    /\ rangeIdle /\ parseIdle /\ mainIdle

Build ==
    /\ pc = "build"
    /\ dfa' = parsed_dfa_to_automaton(pdfa)
    /\ pc' = "built"
    /\ UNCHANGED <<pdfa, rangeVars, parseVars, mainVars>>

NextBuild == Build

SpecBuild == InitBuild /\ [][NextBuild]_vars

(***************************************************************************)
(* main, from the two parsed blocks on.                                    *)
(***************************************************************************)

Init ==
    /\ pc = "main"
    /\ parsed \in Blocks \X Blocks
    /\ a = NoAutomaton /\ z = NoAutomaton /\ zad = NoAutomaton /\ adz = NoAutomaton
    /\ reports = <<>> /\ verdict = <<>>
    /\ rangeIdle /\ parseIdle /\ buildIdle

\* a = parsed_dfa_to_automaton(parsed[0])
BuildA ==
    /\ pc = "main"
    /\ a' = parsed_dfa_to_automaton(parsed[1])
    /\ pc' = IF a'.status = "ok" THEN "built_a" ELSE "raised"
    /\ UNCHANGED <<parsed, z, zad, adz, reports, verdict, rangeVars, parseVars, buildVars>>

\* z = parsed_dfa_to_automaton(parsed[1])
BuildZ ==
    /\ pc = "built_a"
    /\ z' = parsed_dfa_to_automaton(parsed[2])
    /\ pc' = IF z'.status = "ok" THEN "built_z" ELSE "raised"
    /\ UNCHANGED <<parsed, a, zad, adz, reports, verdict, rangeVars, parseVars, buildVars>>

\* zad = z.difference(a)
DiffZA ==
    /\ pc = "built_z"
    /\ zad' = difference(z, a)
    /\ pc' = IF zad'.status = "ok" THEN "zad" ELSE "raised"
    /\ UNCHANGED <<parsed, a, z, adz, reports, verdict, rangeVars, parseVars, buildVars>>

\* if not zad.isempty(): echo "... accepted by only first automaton:" and the successor
ReportZ ==
    /\ pc = "zad"
    /\ IF isempty(zad)
       THEN pc' = "reported_z" /\ UNCHANGED reports
       ELSE IF successor(zad).hang
            THEN pc' = "hang" /\ UNCHANGED reports
            ELSE pc' = "reported_z" /\ reports' = Append(reports, report("first", zad))
    /\ UNCHANGED <<parsed, a, z, zad, adz, verdict, rangeVars, parseVars, buildVars>>

\* adz = a.difference(z)
DiffAZ ==
    /\ pc = "reported_z"
    /\ adz' = difference(a, z)
    /\ pc' = IF adz'.status = "ok" THEN "adz" ELSE "raised"
    /\ UNCHANGED <<parsed, a, z, zad, reports, verdict, rangeVars, parseVars, buildVars>>

\* if not adz.isempty(): echo "... accepted by only second automaton:" and the successor
ReportA ==
    /\ pc = "adz"
    /\ IF isempty(adz)
       THEN pc' = "reported_a" /\ UNCHANGED reports
       ELSE IF successor(adz).hang
            THEN pc' = "hang" /\ UNCHANGED reports
            ELSE pc' = "reported_a" /\ reports' = Append(reports, report("second", adz))
    /\ UNCHANGED <<parsed, a, z, zad, adz, verdict, rangeVars, parseVars, buildVars>>

\* equiv1, equiv2, the assertion and the printed verdict
Verdict ==
    /\ pc = "reported_a"
    /\ LET r == equivalent(a, z, adz, zad)
       IN  IF r.raised
           THEN pc' = "raised" /\ UNCHANGED verdict
           ELSE pc' = "done" /\ verdict' = <<r.equiv>>
    /\ UNCHANGED <<parsed, a, z, zad, adz, reports, rangeVars, parseVars, buildVars>>

Next ==
    \/ BuildA
    \/ BuildZ
    \/ DiffZA
    \/ ReportZ
    \/ DiffAZ
    \/ ReportA
    \/ Verdict

Spec == Init /\ [][Next]_vars

(***************************************************************************)
(* Properties.                                                             *)
(***************************************************************************)

Words(syms) == SeqsUpTo(syms, MaxWord)

\* The state d is in after reading word.
RECURSIVE run(_, _, _)
run(d, state, word) ==
    IF word = <<>> THEN state ELSE run(d, d.transitions[state][Head(word)], Tail(word))

\* d accepts word.
accepts(d, word) == run(d, d.initial_state, word) \in d.final_states

\* The states of pd that are the destination of no transition.
no_incoming(pd) ==
    LET trs == pd.transitions
        nodes == {trs[i].src : i \in DOMAIN trs} \cup {trs[i].dst : i \in DOMAIN trs}
    IN  {n \in nodes : \A i \in DOMAIN trs : trs[i].dst # n}

\* C1: whenever parsed_dfa_to_automaton returns an automaton, every state has a
\* transition on every symbol of the alphabet.
C1_Total ==
    (pc = "built" /\ dfa.status = "ok") =>
        \A s \in dfa.states : \A sym \in dfa.input_symbols :
            sym \in DOMAIN dfa.transitions[s]

\* C1 witness: an automaton is returned that has a non-accepting state and a
\* non-empty alphabet.
C1_Witness ==
    /\ pc = "built" /\ dfa.status = "ok"
    /\ dfa.input_symbols # {}
    /\ dfa.states \ dfa.final_states # {}

\* C2: the builder fails unless exactly one state has no incoming edge, and the
\* start state of a returned automaton is that state.
C2_Start ==
    pc = "built" =>
        /\ Cardinality(no_incoming(pdfa)) # 1 => dfa.status # "ok"
        /\ dfa.status = "ok" => no_incoming(pdfa) = {dfa.initial_state}

\* C2 witness: a ParsedDFA with several states without incoming edge was refused.
C2_Witness ==
    /\ pc = "built"
    /\ Cardinality(no_incoming(pdfa)) > 1
    /\ dfa.status = "Exception"

C10_FinalStatesAreStates ==
    (pc = "built" /\ dfa.status = "ok") => dfa.final_states \subseteq dfa.states

\* C10 witness: an automaton with an accepting state is returned.
C10_Witness ==
    /\ pc = "built" /\ dfa.status = "ok"
    /\ dfa.final_states # {}

\* The codes a group covers: the inclusive interval between its endpoint codes.
group_codes(g) ==
    LET cs == {g[i].code : i \in DOMAIN g}
    IN  Min(cs)..Max(cs)

\* C7 as claimed: parse_char_ranges returns, for every valid range spec, the
\* union over the groups of the interval between the two endpoint codes.
C7_Decoded ==
    pc = "decoded" =>
        /\ ~chars.raised
        /\ chars.chars = UNION {group_codes(groups[i]) : i \in DOMAIN groups}

\* The k-th smallest element of the set S of numbers.
RECURSIVE kth(_, _)
kth(S, k) == IF k = 1 THEN Min(S) ELSE kth(S \ {Min(S)}, k - 1)

\* What the lines lo+1 .. hi-1 of the text t say: edges and accepting nodes.
block_between(t, lo, hi) ==
    LET body == SubSeq(t, lo + 1, hi - 1)
        edges == SelectSeq(body, LAMBDA l : l.kind = "edge")
        nodes == SelectSeq(body, LAMBDA l : l.kind = "node")
    IN  [transitions |->
            [i \in DOMAIN edges |->
                [src |-> edges[i].src, dst |-> edges[i].dst,
                 chars |-> IF edges[i] = LabelledEdgeLine THEN 97..99 ELSE {}]],
         finalnodes |-> [i \in DOMAIN nodes |-> <<nodes[i].src, nodes[i].name>>]]

closing_markers(t) == {i \in DOMAIN t : t[i].kind = "close"}

\* C8 as claimed: for every input text parse_re2c_graphs returns one ParsedDFA
\* per closing marker, in order, each with the edges and accepting nodes of the
\* lines since the marker before; lines after the last marker give nothing.
C8_Blocks ==
    pc \in {"parse_done", "raised"} =>
        LET cl == closing_markers(text)
        IN  /\ pc = "parse_done"
            /\ Len(dfas) = Cardinality(cl)
            /\ \A k \in 1..Cardinality(cl) :
                   dfas[k] = block_between(text, IF k = 1 THEN 0 ELSE kth(cl, k - 1),
                                           kth(cl, k))

\* The two automata accept the same words.  The automata compared have at most
\* two states each, so two of them that differ differ on a word of length at
\* most three.
same_language(x, y) ==
    /\ x.input_symbols = y.input_symbols
    /\ \A w \in Words(x.input_symbols) : accepts(x, w) = accepts(y, w)

\* C3: a printed verdict is TRUE exactly when both differences are empty,
\* that is when the two automata accept the same language, and no verdict is
\* printed when the union-based and the difference-based results disagree.
C3_Verdict ==
    /\ pc = "done" =>
        /\ verdict = <<isempty(zad) /\ isempty(adz)>>
        /\ verdict = <<same_language(a, z)>>
    /\ verdict # <<>> => equiv1(a, z) = equiv2(adz, zad)

\* C3 witness: two different automata were compared and found equivalent.
C3_Witness ==
    /\ pc = "done"
    /\ verdict = <<TRUE>>
    /\ a # z

\* In the difference of x and y: accepted by x, not by y.
in_difference(x, y, w) == accepts(x, w) /\ ~accepts(y, w)

\* The last report is a shortest non-empty word of the difference of x and y.
minimal_witness(which, x, y) ==
    /\ reports # <<>>
    /\ LET r == reports[Len(reports)]
       IN  /\ r.which = which
           /\ r.found
           /\ r.word # <<>>
           /\ in_difference(x, y, r.word)
           /\ \A w \in Words(x.input_symbols) :
                  (w # <<>> /\ in_difference(x, y, w)) => Len(r.word) <= Len(w)

\* C4 as claimed: whenever a difference is non-empty, a non-empty word of it
\* of minimal length is reported.
C4_MinimalWitness ==
    /\ (pc = "reported_z" /\ ~isempty(zad)) => minimal_witness("first", z, a)
    /\ (pc = "reported_a" /\ ~isempty(adz)) => minimal_witness("second", a, z)

\* C5 as claimed: the automaton a report names accepts the reported word and
\* the other automaton does not; a is the first automaton, z the second.
C5_NamedAutomatonAccepts ==
    \A i \in DOMAIN reports :
        reports[i].found =>
            IF reports[i].which = "first"
            THEN in_difference(a, z, reports[i].word)
            ELSE in_difference(z, a, reports[i].word)

\* C6 as claimed: two built automata with different alphabets are compared
\* over the union of the alphabets and a verdict is printed.
C6_UnionAlphabet ==
    (/\ pc \in {"done", "raised", "hang"}
     /\ a.status = "ok" /\ z.status = "ok"
     /\ a.input_symbols # z.input_symbols)
        => (pc = "done" /\ verdict # <<>>)

====
